---------------------------- MODULE Spec2Model ----------------------------
(***************************************************************************)
(* Model of wpaperd's per-output controller, daemon/src/surface.rs: one    *)
(* Surface, the calloop timer registry it registers its rotation timer     *)
(* with, and the clock.                                                    *)
(*                                                                         *)
(* Option<T> is a set: None is {} and Some(x) is {x}.  Time is counted in  *)
(* whole ticks; the event loop dispatches a due timer before the clock     *)
(* moves on.  The render backend and the EGL context are services that     *)
(* succeed; the image picker, the decoder and the renderer are the         *)
(* collaborators of surface.rs and are modelled by their interface.        *)
(***************************************************************************)
EXTENDS Integers, Sequences, FiniteSets, TLC

\* ------------------------------------------------------------------ bounds
\* The clock runs from 0 to MaxTime.
MaxTime == 4
\* Rotation durations are 1..MaxDuration ticks.
MaxDuration == 2
\* The retry counter is followed up to MaxTries (one call polls the decoder
\* at most MaxTries times).
MaxTries == 6

\* --------------------------------------------------------------- constants
\* surface.rs:257, `if self.loading_image_tries == 5`
GiveUpTries == 5
\* surface.rs:48, `loading_image_tries: u8`
U8Modulus == 256

\* ------------------------------------------------------------------ inputs
Images == {"a.png", "b.png"}
\* surface.rs:87, the 1x1 placeholder the renderer is created with
BlackImage == "black"
\* the picker's current image before the first load
NoImage == ""
Paths == {"/img", "/pics"}
Modes == {"fit", "center"}
Offsets == {"o0", "o1"}
TransitionTimes == {1}
Tokens == {"t1", "t2", "t3"}

None == {}
Some(x) == {x}
IsSome(o) == o # {}
Unwrap(o) == CHOOSE x \in o : TRUE

Durations == 1..MaxDuration
OptDurations == {None} \cup {Some(d) : d \in Durations}

WallpaperInfos ==
    [path : Paths, duration : OptDurations, mode : Modes, offset : Offsets,
     transition_time : TransitionTimes]

\* ------------------------------------------------------------------- state
VARIABLES
    event_source,          \* EventSource
    wallpaper_info,        \* WallpaperInfo
    image_picker,          \* ImagePicker: current_img, action, reload, image_changed_instant
    renderer,              \* Renderer: image, transition_running, mode, offset
    window_drawn,
    loading_image,         \* Option<image>
    loading_image_tries,
    skip_next_transition,
    should_pause,
    context_current,       \* the surface's EGL context is the current one
    frame_requested,       \* a wl_surface.frame callback is outstanding
    timers,                \* the registry: live registrations [token, deadline]
    registry_ok,           \* the registry accepts a new source (insert_source is Ok)
    surface_present,       \* the daemon's surface list holds this surface
    panicked,              \* a panic has unwound the event loop: the daemon is gone
    now,                   \* the clock
    fx,                    \* what the last handler did
    rot                    \* rotation scenario: when the timer was armed, when the image changed

vars == <<event_source, wallpaper_info, image_picker, renderer, window_drawn,
          loading_image, loading_image_tries, skip_next_transition, should_pause,
          context_current, frame_requested, timers, registry_ok, surface_present,
          panicked, now, fx, rot>>

NotSet == [tag |-> "NotSet"]
Running(token) == [tag |-> "Running", token |-> token]
Paused(remaining) == [tag |-> "Paused", remaining |-> remaining]


\* What a handler did; every handler starts from NoFx with its own name.
NoFx ==
    [op |-> "init",
     ret |-> "none",          \* load_wallpaper's result: "true", "false", "none" (not called)
     errors |-> 0,            \* Error results the decoder gave in this call
     loaded |-> FALSE,        \* the decoder gave Loaded
     started |-> None,        \* Some(t): start_transition(t) was called
     deferred |-> FALSE,      \* load_wallpaper stopped at the running transition
     forced |-> FALSE,        \* force_transition_end ended a running transition
     queued |-> FALSE,        \* queue_draw was reached
     draw_called |-> FALSE,   \* draw was called
     drew |-> FALSE,          \* draw reached renderer.draw and swap_buffers
     advanced |-> FALSE,      \* image_picker.next_image was called
     bare_commit |-> FALSE,   \* draw returned after frame and commit alone
     armed |-> None,          \* Some(d): add_timer registered a timer due in d
     insert_failed |-> FALSE, \* insert_source answered Err
     lookup_failed |-> FALSE] \* surface_from_name answered Err

NoRot == [t0 |-> None, t |-> None, last |-> ""]

\* The surface and the registry as one value, the way the handlers thread them.
Cur ==
    [event_source |-> event_source, wallpaper_info |-> wallpaper_info,
     image_picker |-> image_picker, renderer |-> renderer,
     window_drawn |-> window_drawn, loading_image |-> loading_image,
     loading_image_tries |-> loading_image_tries,
     skip_next_transition |-> skip_next_transition, should_pause |-> should_pause,
     context_current |-> context_current, frame_requested |-> frame_requested,
     timers |-> timers, registry_ok |-> registry_ok,
     surface_present |-> surface_present, panicked |-> panicked, fx |-> fx]

Begin(op) == [Cur EXCEPT !.fx = [NoFx EXCEPT !.op = op]]

\* ------------------------------------------------- image picker (interface)
\* ImagePicker::next_image: the picker is asked to move on.
picker_next_image(w) == [w EXCEPT !.image_picker.action = "next"]

\* ImagePicker::get_image_from_path: the answers the policy may give.  With
\* nothing asked of it, it names the current image (or nothing).
get_image_from_path(w) ==
    IF w.image_picker.action = "next" \/ w.image_picker.current_img = NoImage
    THEN {None} \cup {Some(i) : i \in Images}
    ELSE {None, Some(w.image_picker.current_img)}

\* ImagePicker::update_current_image: the image is current from now on.
update_current_image(w, img) ==
    [w EXCEPT !.image_picker.current_img = img,
              !.image_picker.action = "none",
              !.image_picker.image_changed_instant = now]

\* ImagePicker::reloaded
picker_reloaded(w) == [w EXCEPT !.image_picker.reload = FALSE]

\* ------------------------------------------------------ renderer (interface)
renderer_load_wallpaper(w, img) ==
    [w EXCEPT !.renderer.image = img,
              !.renderer.mode = Some(w.wallpaper_info.mode),
              !.renderer.offset = Some(w.wallpaper_info.offset)]

start_transition(w, t) ==
    [w EXCEPT !.renderer.transition_running = TRUE, !.fx.started = Some(t)]

set_mode(w) ==
    [w EXCEPT !.renderer.mode = Some(w.wallpaper_info.mode),
              !.renderer.offset = Some(w.wallpaper_info.offset)]

force_transition_end(w) ==
    [w EXCEPT !.renderer.transition_running = FALSE,
              !.fx.forced = w.renderer.transition_running]

\* ------------------------------------------------------------ load_wallpaper
\* surface.rs:217-244, the Loaded arm.
LoadedArmKeepSkip(w, img) ==
    LET w1 == renderer_load_wallpaper([w EXCEPT !.context_current = TRUE], img)
        transition_time == IF w1.skip_next_transition THEN 0
                           ELSE w1.wallpaper_info.transition_time
        w3 == IF w1.image_picker.reload
              THEN picker_reloaded(w1)
              ELSE start_transition(update_current_image(w1, img), transition_time)
    IN  [w3 EXCEPT !.loading_image_tries = 0, !.loading_image = None,
                   !.fx.loaded = TRUE]

LoadedArm(w, img) ==
    LET w1 == renderer_load_wallpaper([w EXCEPT !.context_current = TRUE], img)
        transition_time == IF w1.skip_next_transition THEN 0
                           ELSE w1.wallpaper_info.transition_time
        w2 == [w1 EXCEPT !.skip_next_transition = FALSE]
        w3 == IF w2.image_picker.reload
              THEN picker_reloaded(w2)
              ELSE start_transition(update_current_image(w2, img), transition_time)
    IN  [w3 EXCEPT !.loading_image_tries = 0, !.loading_image = None,
                   !.fx.loaded = TRUE]

\* surface.rs:249-259, the Error arm and the check after the match.
ErrorArm(w) ==
    LET w1 == [w EXCEPT !.loading_image_tries = (@ + 1) % U8Modulus,
                        !.loading_image = None,
                        !.fx.errors = @ + 1]
    IN  [w |-> w1,
         brk |-> IF w1.loading_image_tries = GiveUpTries THEN "true" ELSE "continue"]

LoadIterNoDefer(w, i) ==
    LET asked == w.loading_image = None
        current == asked /\ IsSome(i.pick)
                   /\ w.image_picker.current_img = Unwrap(i.pick)
                   /\ ~w.image_picker.reload
        w1 == IF asked THEN [w EXCEPT !.loading_image = i.pick] ELSE w
    IN  IF asked /\ i.pick \notin get_image_from_path(w)
        THEN [w |-> w, brk |-> "invalid"]
        ELSE IF asked /\ (i.pick = None \/ current)
        THEN [w |-> w, brk |-> "true"]
        ELSE IF i.res = "Loaded"
        THEN [w |-> LoadedArm(w1, Unwrap(w1.loading_image)), brk |-> "true"]
        ELSE IF i.res = "Waiting"
        THEN [w |-> w1, brk |-> "false"]
        ELSE ErrorArm(w1)

\* One turn of the loop of surface.rs:182-260 on the answers `i` of the picker
\* (i.pick) and of the decoder (i.res).  brk is "continue", or the value the
\* loop breaks with, or "invalid" when the picker cannot give i.pick.
LoadIter(w, i) ==
    LET asked == w.loading_image = None
        current == asked /\ IsSome(i.pick)
                   /\ w.image_picker.current_img = Unwrap(i.pick)
                   /\ ~w.image_picker.reload
        w1 == IF asked THEN [w EXCEPT !.loading_image = i.pick] ELSE w
    IN  IF asked /\ i.pick \notin get_image_from_path(w)
        THEN [w |-> w, brk |-> "invalid"]
        ELSE IF asked /\ (i.pick = None \/ current)
        THEN [w |-> w, brk |-> "true"]
        ELSE IF w1.renderer.transition_running
        THEN [w |-> [w1 EXCEPT !.fx.deferred = TRUE], brk |-> "true"]
        ELSE IF i.res = "Loaded"
        THEN [w |-> LoadedArm(w1, Unwrap(w1.loading_image)), brk |-> "true"]
        ELSE IF i.res = "Waiting"
        THEN [w |-> w1, brk |-> "false"]
        ELSE ErrorArm(w1)

RECURSIVE LoadLoop(_, _)
LoadLoop(w, inputs) ==
    IF inputs = <<>>
    THEN [w |-> w, brk |-> "invalid"]
    ELSE LET r == LoadIter(w, Head(inputs))
         IN  IF r.brk = "continue" THEN LoadLoop(r.w, Tail(inputs))
             ELSE IF Tail(inputs) = <<>> THEN r
             ELSE [w |-> w, brk |-> "invalid"]

\* Surface::load_wallpaper; fx.ret is its result, "invalid" when `inputs` is
\* not the sequence of answers this call consumes.
load_wallpaper(w, inputs) ==
    LET r == LoadLoop(w, inputs)
    IN  [r.w EXCEPT !.fx.ret = r.brk]

\* The answers one call on w may consume: Error results, then one last
\* answer.  Which image fails to decode leaves no trace, so one image stands
\* for the picks of the failing turns.  The environment `env` is "any"; or
\* "steady", a decoder that never answers Error; or "ready", a decoder that
\* answers Loaded and a picker that names an image.
OptImages == {None} \cup {Some(i) : i \in Images}
ErrPrefix(p, k) == [j \in 1..k |-> [pick |-> Some(p), res |-> "Error"]]
LoadInputs(w, env) ==
    LET picks == get_image_from_path(w)
        failing == {i \in Images : Some(i) \in picks
                                   /\ (i # w.image_picker.current_img \/ w.image_picker.reload)}
        p == IF failing = {} THEN CHOOSE i \in Images : TRUE
             ELSE CHOOSE i \in failing : TRUE
        kmax == IF env \in {"ready", "steady"} \/ w.renderer.transition_running THEN 0
                ELSE MaxTries - w.loading_image_tries
        lastpicks == IF w.loading_image # None THEN {None}
                     ELSE IF env = "ready" THEN picks \ {None} ELSE picks
        results == IF env = "ready" THEN {"Loaded"} ELSE {"Loaded", "Waiting"}
    IN  { ErrPrefix(p, k) \o last :
            k \in 0..kmax,
            last \in {<<>>} \cup { <<[pick |-> q, res |-> r]>> : q \in lastpicks, r \in results } }

queue_draw_no_frame(w, inputs) ==
    load_wallpaper([w EXCEPT !.fx.queued = TRUE], inputs)

\* Surface::queue_draw
queue_draw(w, inputs) ==
    LET w1 == load_wallpaper([w EXCEPT !.fx.queued = TRUE], inputs)
    IN  [w1 EXCEPT !.frame_requested = TRUE]

\* ---------------------------------------------------------------------- draw
\* Renderer::update_transition_status(time.unwrap_or(0)): without a frame time
\* the transition counts as ended (surface.rs:145); with one, the renderer
\* answers.
update_transition_status(time, answer) == IF time = None THEN FALSE ELSE answer

\* surface.rs:161-175: renderer.draw, swap_buffers, the context reset, damage, commit.
draw_and_commit(w) == [w EXCEPT !.context_current = FALSE, !.fx.drew = TRUE]

draw_returns_before_first_draw(w, inputs, time, answer) ==
    LET w0 == [w EXCEPT !.context_current = TRUE, !.fx.draw_called = TRUE]
        w1 == load_wallpaper(w0, inputs)
        wallpaper_loaded == w1.fx.ret = "true"
    IN  IF w1.renderer.transition_running
        THEN IF update_transition_status(time, answer)
             THEN draw_and_commit([w1 EXCEPT !.frame_requested = TRUE])
             ELSE draw_and_commit([w1 EXCEPT !.renderer.transition_running = FALSE])
        ELSE IF ~wallpaper_loaded
        THEN LET w2 == [w1 EXCEPT !.frame_requested = TRUE]
             IN  IF ~w2.window_drawn THEN [w2 EXCEPT !.fx.bare_commit = TRUE]
                 ELSE draw_and_commit(w2)
        ELSE draw_and_commit(w1)

\* Surface::draw
draw(w, inputs, time, answer) ==
    LET w0 == [w EXCEPT !.context_current = TRUE, !.fx.draw_called = TRUE]
        w1 == load_wallpaper(w0, inputs)
        wallpaper_loaded == w1.fx.ret = "true"
    IN  IF w1.renderer.transition_running
        THEN IF update_transition_status(time, answer)
             THEN draw_and_commit([w1 EXCEPT !.frame_requested = TRUE])
             ELSE draw_and_commit([w1 EXCEPT !.renderer.transition_running = FALSE])
        ELSE IF ~wallpaper_loaded
        THEN LET w2 == [w1 EXCEPT !.frame_requested = TRUE]
             IN  IF w2.window_drawn THEN [w2 EXCEPT !.fx.bare_commit = TRUE]
                 ELSE draw_and_commit(w2)
        ELSE draw_and_commit(w1)

\* -------------------------------------------------------------------- resize
resize_keep_transition(w, inputs) ==
    queue_draw([w EXCEPT !.context_current = TRUE], inputs)

\* Surface::resize
resize(w, inputs) ==
    queue_draw(force_transition_end([w EXCEPT !.context_current = TRUE]), inputs)

\* Surface::change_transform, after info.change_transform reported a change
change_transform(w, inputs) == set_mode(resize(w, inputs))

\* -------------------------------------------------------------------- timers
\* remaining_duration
remaining_duration_full(duration, image_changed) ==
    LET diff == now - image_changed
    IN  IF duration - diff <= 0 THEN None ELSE Some(duration)

remaining_duration(duration, image_changed) ==
    LET diff == now - image_changed
    IN  IF duration - diff <= 0 THEN None ELSE Some(duration - diff)

\* Surface::get_remaining_duration
get_remaining_duration(w) ==
    IF w.wallpaper_info.duration = None THEN None
    ELSE remaining_duration(Unwrap(w.wallpaper_info.duration),
                            w.image_picker.image_changed_instant)

LiveTokens(w) == {r.token : r \in w.timers}

\* LoopHandle::insert_source gives a token no registration and no state holds.
FreshTokens(w) ==
    {t \in Tokens : t \notin LiveTokens(w)
                    /\ (w.event_source.tag = "Running" => w.event_source.token # t)}
FreshToken(w) == CHOOSE t \in FreshTokens(w) : TRUE

\* LoopHandle::remove
remove(w, token) == [w EXCEPT !.timers = {r \in @ : r.token # token}]

\* Timer::immediate() is a delay of 0, Timer::from_duration(d) a delay of d.
Immediate == Some(0)

add_timer_unguarded(w, timer) ==
    IF w.wallpaper_info.duration = None THEN w
    ELSE LET delay == IF timer = None THEN Unwrap(w.wallpaper_info.duration)
                      ELSE Unwrap(timer)
             token == FreshToken(w)
         IN  [w EXCEPT !.timers = @ \cup {[token |-> token, deadline |-> now + delay]},
                       !.event_source = Running(token),
                       !.fx.armed = Some(delay)]

\* Surface::add_timer.  insert_source(..).expect(..) panics on Err
\* (surface.rs:512).
add_timer(w, timer) ==
    IF w.event_source.tag = "Running" THEN w
    ELSE IF w.wallpaper_info.duration = None THEN w
    ELSE IF ~w.registry_ok
    THEN [w EXCEPT !.panicked = TRUE, !.fx.insert_failed = TRUE]
    ELSE LET delay == IF timer = None THEN Unwrap(w.wallpaper_info.duration)
                      ELSE Unwrap(timer)
             token == FreshToken(w)
         IN  [w EXCEPT !.timers = @ \cup {[token |-> token, deadline |-> now + delay]},
                       !.event_source = Running(token),
                       !.fx.armed = Some(delay)]

\* TimeoutAction::ToDuration(d): the registration r fires again d from now.
ToDuration(w, r, d) ==
    [w EXCEPT !.timers = (@ \ {r}) \cup {[token |-> r.token, deadline |-> now + d]}]

\* TimeoutAction::Drop
Drop(w, r) == [w EXCEPT !.timers = @ \ {r}]

timer_callback_eager(w, r, inputs) ==
    IF ~w.surface_present
    THEN Drop([w EXCEPT !.fx.lookup_failed = TRUE], r)
    ELSE IF IsSome(w.wallpaper_info.duration)
    THEN ToDuration(
             queue_draw([picker_next_image(w) EXCEPT !.fx.advanced = TRUE], inputs),
             r, Unwrap(w.wallpaper_info.duration))
    ELSE Drop(w, r)

timer_callback_unwrap(w, r, inputs) ==
    IF ~w.surface_present
    THEN [w EXCEPT !.fx.lookup_failed = TRUE, !.panicked = TRUE]
    ELSE IF IsSome(w.wallpaper_info.duration)
    THEN LET duration == Unwrap(w.wallpaper_info.duration)
             remaining_time == remaining_duration(duration,
                                                  w.image_picker.image_changed_instant)
         IN  IF IsSome(remaining_time)
             THEN ToDuration(w, r, Unwrap(remaining_time))
             ELSE ToDuration(
                      queue_draw([picker_next_image(w) EXCEPT !.fx.advanced = TRUE], inputs),
                      r, duration)
    ELSE Drop(w, r)

\* The callback add_timer registers (surface.rs:476-510), fired for registration r.
timer_callback(w, r, inputs) ==
    IF ~w.surface_present
    THEN Drop([w EXCEPT !.fx.lookup_failed = TRUE], r)
    ELSE IF IsSome(w.wallpaper_info.duration)
    THEN LET duration == Unwrap(w.wallpaper_info.duration)
             remaining_time == remaining_duration(duration,
                                                  w.image_picker.image_changed_instant)
         IN  IF IsSome(remaining_time)
             THEN ToDuration(w, r, Unwrap(remaining_time))
             ELSE ToDuration(
                      queue_draw([picker_next_image(w) EXCEPT !.fx.advanced = TRUE], inputs),
                      r, duration)
    ELSE Drop(w, r)

handle_pause_state_rearm(w) ==
    IF w.should_pause /\ w.event_source.tag = "Running"
    THEN LET remaining == get_remaining_duration(w)
         IN  [remove(w, w.event_source.token) EXCEPT
                 !.event_source =
                     Paused(IF remaining = None THEN 0 ELSE Unwrap(remaining))]
    ELSE IF ~w.should_pause /\ w.event_source.tag = "Paused"
    THEN [add_timer(w, Some(w.event_source.remaining)) EXCEPT
             !.event_source = w.event_source]
    ELSE w

handle_pause_state_keep(w) ==
    IF w.should_pause /\ w.event_source.tag = "Running"
    THEN LET remaining == get_remaining_duration(w)
         IN  [w EXCEPT !.event_source =
                           Paused(IF remaining = None THEN 0 ELSE Unwrap(remaining))]
    ELSE IF ~w.should_pause /\ w.event_source.tag = "Paused"
    THEN add_timer(w, Some(w.event_source.remaining))
    ELSE w

\* Surface::handle_pause_state
handle_pause_state(w) ==
    IF w.should_pause /\ w.event_source.tag = "Running"
    THEN LET remaining == get_remaining_duration(w)
         IN  [remove(w, w.event_source.token) EXCEPT
                 !.event_source =
                     Paused(IF remaining = None THEN 0 ELSE Unwrap(remaining))]
    ELSE IF ~w.should_pause /\ w.event_source.tag = "Paused"
    THEN add_timer(w, Some(w.event_source.remaining))
    ELSE w

pause_and_cancel(w) == handle_pause_state([w EXCEPT !.should_pause = TRUE])

\* Surface::pause, Surface::resume, Surface::toggle_pause
pause(w) == [w EXCEPT !.should_pause = TRUE]
resume(w) == [w EXCEPT !.should_pause = FALSE]
toggle_pause(w) == IF w.should_pause THEN resume(w) ELSE pause(w)

\* ----------------------------------------------------- update_wallpaper_info
update_duration_immediate(w, old, path_changed) ==
    LET new_duration == w.wallpaper_info.duration
        w1 == IF w.event_source.tag = "Running"
              THEN remove(w, w.event_source.token) ELSE w
    IN  IF new_duration = old.duration THEN w
        ELSE IF new_duration = None THEN w1
        ELSE add_timer([w1 EXCEPT !.event_source = NotSet], Immediate)

\* surface.rs:381-415, the duration arm.  `old` is the configuration replaced.
update_duration(w, old, path_changed) ==
    LET new_duration == w.wallpaper_info.duration
        w1 == IF w.event_source.tag = "Running"
              THEN remove(w, w.event_source.token) ELSE w
    IN  IF new_duration = old.duration THEN w
        ELSE IF new_duration = None THEN w1
        ELSE LET remaining_time ==
                     remaining_duration(Unwrap(new_duration),
                                        w.image_picker.image_changed_instant)
                 timer == IF ~path_changed /\ IsSome(remaining_time)
                          THEN remaining_time ELSE Immediate
             IN  add_timer([w1 EXCEPT !.event_source = NotSet], timer)

update_mode_draw_on_path(w, old, path_changed, inputs) ==
    IF w.wallpaper_info.mode # old.mode \/ w.wallpaper_info.offset # old.offset
    THEN LET w1 == set_mode([w EXCEPT !.context_current = TRUE])
         IN  IF path_changed THEN draw(w1, inputs, None, FALSE) ELSE w1
    ELSE w

\* surface.rs:417-432, the mode/offset arm.
update_mode(w, old, path_changed, inputs) ==
    IF w.wallpaper_info.mode # old.mode \/ w.wallpaper_info.offset # old.offset
    THEN LET w1 == set_mode([w EXCEPT !.context_current = TRUE])
         IN  IF ~path_changed THEN draw(w1, inputs, None, FALSE) ELSE w1
    ELSE w

\* Surface::update_wallpaper_info
update_wallpaper_info(w, new_info, inputs) ==
    IF w.wallpaper_info = new_info THEN w
    ELSE LET old == w.wallpaper_info
             w1 == [w EXCEPT !.wallpaper_info = new_info]
             path_changed == new_info.path # old.path
             w2 == IF path_changed
                   THEN queue_draw([picker_next_image(w1) EXCEPT !.fx.advanced = TRUE],
                                   inputs)
                   ELSE w1
             w3 == update_duration(w2, old, path_changed)
         IN  IF w3.panicked THEN w3 ELSE update_mode(w3, old, path_changed, inputs)

\* ---------------------------------------------------------------------- Init
\* Surface::new: the fields of surface.rs:102-118, then load_wallpaper.
NewSurface(info, first_transition) ==
    [event_source |-> NotSet,
     wallpaper_info |-> info,
     image_picker |-> [current_img |-> NoImage, action |-> "none", reload |-> FALSE,
                       image_changed_instant |-> now],
     renderer |-> [image |-> BlackImage, transition_running |-> FALSE,
                   mode |-> None, offset |-> None],
     window_drawn |-> FALSE,
     loading_image |-> None,
     loading_image_tries |-> 0,
     skip_next_transition |-> first_transition,
     should_pause |-> FALSE,
     context_current |-> TRUE,
     frame_requested |-> FALSE,
     timers |-> {},
     registry_ok |-> TRUE,
     surface_present |-> TRUE,
     panicked |-> FALSE,
     fx |-> [NoFx EXCEPT !.op = "new"]]

\* The rotation scenario after a handler took the surface from the current
\* state to w: t0 is when the live timer was armed for a full period, t the one
\* time the current image changed since, strictly between t0 and t0 + duration;
\* last is "rescheduled" once the callback fired with t set and put itself
\* off, and "advanced" right after it fired with t set and advanced the image.  A pause, a
\* configuration change or a second image change ends the scenario.
NextRot(w) ==
    LET d == w.wallpaper_info.duration
        changed == w.fx.loaded /\ IsSome(w.fx.started)
        armed == IsSome(d) /\ \E r \in w.timers \ timers : r.deadline = now + Unwrap(d)
    IN  IF w.wallpaper_info # wallpaper_info \/ w.should_pause
           \/ w.event_source.tag # "Running" \/ d = None
        THEN NoRot
        ELSE IF armed
        THEN [t0 |-> Some(now), t |-> None,
              last |-> IF IsSome(rot.t) /\ w.fx.op = "timer_callback" /\ w.fx.advanced
                       THEN "advanced" ELSE ""]
        ELSE IF w.timers # timers
        THEN IF IsSome(rot.t) /\ w.fx.op = "timer_callback"
             THEN [rot EXCEPT !.last = "rescheduled"] ELSE NoRot
        ELSE IF changed
        THEN IF IsSome(rot.t0) /\ rot.t = None
                /\ Unwrap(rot.t0) < now /\ now < Unwrap(rot.t0) + Unwrap(d)
             THEN [rot EXCEPT !.t = Some(now), !.last = ""]
             ELSE NoRot
        ELSE IF rot.last = "advanced" THEN [rot EXCEPT !.last = ""]
        ELSE rot

\* w becomes the next state.
Install(w) ==
    /\ w.fx.ret # "invalid"
    /\ w.loading_image_tries <= MaxTries
    /\ event_source' = w.event_source
    /\ wallpaper_info' = w.wallpaper_info
    /\ image_picker' = w.image_picker
    /\ renderer' = w.renderer
    /\ window_drawn' = w.window_drawn
    /\ loading_image' = w.loading_image
    /\ loading_image_tries' = w.loading_image_tries
    /\ skip_next_transition' = w.skip_next_transition
    /\ should_pause' = w.should_pause
    /\ context_current' = w.context_current
    /\ frame_requested' = w.frame_requested
    /\ timers' = w.timers
    /\ registry_ok' = w.registry_ok
    /\ surface_present' = w.surface_present
    /\ panicked' = w.panicked
    /\ fx' = w.fx
    /\ rot' = NextRot(w)
    /\ now' = now

\* The handler's result becomes the next state.  Nothing runs after a panic,
\* and only a timer callback runs for a surface that is gone.
Commit(w) ==
    /\ ~panicked
    /\ \E w1 \in {w} :
           /\ surface_present \/ w1.fx.op = "timer_callback"
           /\ Install(w1)

\* The state after Surface::new for a configuration of `infos`.
NewStates(infos, firsts, env) ==
    {w \in UNION { {load_wallpaper(NewSurface(info, first), inputs) :
                      inputs \in LoadInputs(NewSurface(info, first), env)} :
                   info \in infos, first \in firsts} : w.fx.ret # "invalid"}

InitOf(infos, firsts, env) ==
    /\ now = 0
    /\ \E w \in NewStates(infos, firsts, env) :
               /\ w.fx.ret # "invalid"
               /\ event_source = w.event_source
               /\ wallpaper_info = w.wallpaper_info
               /\ image_picker = w.image_picker
               /\ renderer = w.renderer
               /\ window_drawn = w.window_drawn
               /\ loading_image = w.loading_image
               /\ loading_image_tries = w.loading_image_tries
               /\ skip_next_transition = w.skip_next_transition
               /\ should_pause = w.should_pause
               /\ context_current = w.context_current
               /\ frame_requested = w.frame_requested
               /\ timers = w.timers
               /\ registry_ok = w.registry_ok
               /\ surface_present = w.surface_present
               /\ panicked = w.panicked
               /\ fx = w.fx
               /\ rot = NoRot

\* ------------------------------------------------------------------- actions
\* The clock moves on once no registered timer is due.
Tick ==
    /\ ~panicked
    /\ now < MaxTime
    /\ \A r \in timers : r.deadline > now
    /\ now' = now + 1
    /\ fx' = [NoFx EXCEPT !.op = "tick"]
    /\ rot' = IF rot.last = "advanced" THEN [rot EXCEPT !.last = ""] ELSE rot
    /\ UNCHANGED <<event_source, wallpaper_info, image_picker, renderer, window_drawn,
                   loading_image, loading_image_tries, skip_next_transition,
                   should_pause, context_current, frame_requested, timers,
                   registry_ok, surface_present, panicked>>

\* The registry fires a due timer.  The callback consumes answers of the
\* picker and the decoder only if it reaches queue_draw.
TimerFire(env) ==
    \E r \in timers :
        /\ r.deadline <= now
        /\ LET w == Begin("timer_callback")
           IN  \E inputs \in LoadInputs(picker_next_image(w), env) \cup {<<>>} :
                   LET w1 == timer_callback(w, r, inputs)
                   IN  /\ w1.fx.queued \/ inputs = <<>>
                       /\ Commit(w1)

\* The daemon arms the rotation timer: add_timer(None).
AddTimer == Commit(add_timer(Begin("add_timer"), None))

\* The event loop reconciles the pause state.
HandlePauseState == Commit(handle_pause_state(Begin("handle_pause_state")))

Pause == Commit(pause(Begin("pause")))
Resume == Commit(resume(Begin("resume")))
TogglePause == Commit(toggle_pause(Begin("toggle_pause")))

\* Surface::drawn
Drawn == ~window_drawn /\ Commit([Begin("drawn") EXCEPT !.window_drawn = TRUE])

\* A configuration reload to a configuration of `infos`.
UpdateWallpaperInfo(infos, env) ==
    \E new_info \in infos :
        LET w == Begin("update_wallpaper_info")
            path_changed == new_info.path # wallpaper_info.path
            redraws == new_info.mode # wallpaper_info.mode
                       \/ new_info.offset # wallpaper_info.offset
            at_load == [IF path_changed THEN picker_next_image(w) ELSE w
                           EXCEPT !.wallpaper_info = new_info]
        IN  \E inputs \in IF path_changed \/ redraws
                          THEN LoadInputs(at_load, env) ELSE {<<>>} :
                Commit(update_wallpaper_info(w, new_info, inputs))

\* The compositor's frame callback: draw(qh, Some(time)).
FrameCallback(env) ==
    /\ frame_requested
    /\ LET w == [Begin("draw") EXCEPT !.frame_requested = FALSE]
       IN  \E inputs \in LoadInputs(w, env),
              answer \in IF env = "ready" THEN {FALSE} ELSE BOOLEAN :
               Commit(draw(w, inputs, Some(now), answer))

\* Surface::change_size and Surface::change_scale_factor when the display info
\* reports a change.
ChangeSize(env) ==
    LET w == Begin("change_size")
    IN  \E inputs \in LoadInputs(force_transition_end(w), env) : Commit(resize(w, inputs))

ChangeScaleFactor(env) ==
    LET w == Begin("change_scale_factor")
    IN  \E inputs \in LoadInputs(force_transition_end(w), env) : Commit(resize(w, inputs))

\* Surface::change_transform when the display info reports a change.
ChangeTransform(env) ==
    LET w == Begin("change_transform")
    IN  \E inputs \in LoadInputs(force_transition_end(w), env) :
            Commit(change_transform(w, inputs))

\* The manual next-image command: next_image, then queue_draw.
NextImageCmd(env) ==
    LET w == picker_next_image(Begin("next_image_cmd"))
    IN  \E inputs \in LoadInputs(w, env) : Commit(queue_draw(w, inputs))

\* The reload command: the picker is put in its reload state, then queue_draw.
ReloadCmd(env) ==
    /\ image_picker.current_img # NoImage
    /\ LET w == [Begin("reload_cmd") EXCEPT !.image_picker.reload = TRUE]
       IN  \E inputs \in LoadInputs(w, env) : Commit(queue_draw(w, inputs))

\* insert_source starts or stops answering Err.
RegistryChanges ==
    /\ ~panicked
    /\ Install([Begin("registry") EXCEPT !.registry_ok = ~registry_ok])

\* The output is detached: the daemon drops the surface, and either cancels
\* its registration or leaves it to the callback's lookup (as long as the
\* registry has tokens to spare).
RemoveSurface ==
    /\ ~panicked
    /\ surface_present
    /\ LET w == [Begin("remove_surface") EXCEPT !.surface_present = FALSE]
       IN  \/ Install(IF w.event_source.tag = "Running"
                      THEN remove(w, w.event_source.token) ELSE w)
           \/ /\ Cardinality(timers) + 1 < Cardinality(Tokens)
              /\ Install(w)

\* An output of the same name is attached: Surface::new under a configuration
\* of `infos`, in the registry as it is.
AttachSurface(infos, env) ==
    /\ ~panicked
    /\ ~surface_present
    /\ \E w \in NewStates(infos, {FALSE}, env) :
           Install([w EXCEPT !.timers = timers, !.registry_ok = registry_ok])

\* ------------------------------------------------------------ specifications
\* The rotation timer: the clock, the registry, pause and resume, and reloads
\* of path and duration, with a ready decoder.
RotationInfos ==
    {i \in WallpaperInfos : i.mode = "fit" /\ i.offset = "o0"}

InitRotation == InitOf(RotationInfos, {FALSE}, "ready")

NextRotation ==
    \/ Tick
    \/ TimerFire("ready")
    \/ AddTimer
    \/ HandlePauseState
    \/ Pause
    \/ Resume
    \/ TogglePause
    \/ UpdateWallpaperInfo(RotationInfos, "ready")
    \/ FrameCallback("ready")
    \/ NextImageCmd("ready")

SpecRotation == InitRotation /\ [][NextRotation]_vars

\* The retry loop: every answer of the decoder and of the picker, under one
\* configuration without a rotation duration.
RetryInfos ==
    {i \in WallpaperInfos : i.duration = None /\ i.path = "/img"
                            /\ i.mode = "fit" /\ i.offset = "o0"}

InitRetry == InitOf(RetryInfos, BOOLEAN, "any")

NextRetry ==
    \/ Drawn
    \/ FrameCallback("any")
    \/ ChangeSize("any")
    \/ ChangeScaleFactor("any")
    \/ ChangeTransform("any")
    \/ NextImageCmd("any")
    \/ ReloadCmd("any")

SpecRetry == InitRetry /\ [][NextRetry]_vars

\* Drawing: transitions, resizes, and reloads of path, mode and offset, with a
\* decoder that answers Loaded or Waiting, without a rotation duration.
RenderInfos == {i \in WallpaperInfos : i.duration = None}

InitRender == InitOf(RenderInfos, BOOLEAN, "steady")

NextRender ==
    \/ Drawn
    \/ UpdateWallpaperInfo(RenderInfos, "steady")
    \/ FrameCallback("steady")
    \/ ChangeSize("steady")
    \/ ChangeScaleFactor("steady")
    \/ ChangeTransform("steady")
    \/ NextImageCmd("steady")
    \/ ReloadCmd("steady")

SpecRender == InitRender /\ [][NextRender]_vars

\* Polling the decoder: the callers of load_wallpaper under a reload of the
\* mode, with a compositor that delivers the frame callbacks it owes and a
\* decoder that finishes the image it was asked for: a frame callback that
\* finds the image in flight loaded is not put off forever.
PollInfos == {i \in RenderInfos : i.path = "/img" /\ i.offset = "o0"}

InitPoll == InitOf(PollInfos, {FALSE}, "steady")

NextPoll ==
    \/ Drawn
    \/ UpdateWallpaperInfo(PollInfos, "steady")
    \/ FrameCallback("steady")
    \/ ChangeSize("steady")
    \/ NextImageCmd("steady")
    \/ ReloadCmd("steady")

FrameCallbackLoads ==
    /\ IsSome(loading_image)
    /\ FrameCallback("steady")
    /\ fx'.loaded

SpecPollFair == InitPoll /\ [][NextPoll]_vars /\ WF_vars(FrameCallbackLoads)

\* The surface's life in the daemon: the rotation timer while outputs come
\* and go and while the registry refuses sources, under one path.
LifecycleInfos == {i \in RotationInfos : i.path = "/img"}

InitLifecycle == InitOf(LifecycleInfos, {FALSE}, "ready")

NextLifecycle ==
    \/ Tick
    \/ TimerFire("ready")
    \/ AddTimer
    \/ HandlePauseState
    \/ Pause
    \/ Resume
    \/ UpdateWallpaperInfo(LifecycleInfos, "ready")
    \/ RegistryChanges
    \/ RemoveSurface
    \/ AttachSurface(LifecycleInfos, "ready")

SpecLifecycle == InitLifecycle /\ [][NextLifecycle]_vars

\* The whole surface: every handler under every answer of its collaborators.
Init == InitOf(WallpaperInfos, BOOLEAN, "any")

Next ==
    \/ Tick
    \/ TimerFire("any")
    \/ AddTimer
    \/ HandlePauseState
    \/ Pause
    \/ Resume
    \/ TogglePause
    \/ Drawn
    \/ UpdateWallpaperInfo(WallpaperInfos, "any")
    \/ FrameCallback("any")
    \/ ChangeSize("any")
    \/ ChangeScaleFactor("any")
    \/ ChangeTransform("any")
    \/ NextImageCmd("any")
    \/ ReloadCmd("any")
    \/ RegistryChanges
    \/ RemoveSurface
    \/ AttachSurface(WallpaperInfos, "any")

Spec == Init /\ [][Next]_vars

\* -------------------------------------------------------------------- claims
Elapsed == now - image_picker.image_changed_instant

\* C1: the registry holds at most one live registration of the surface, and
\* none while event_source is Paused.
C1_OneTimerNoneWhilePaused ==
    /\ Cardinality(timers) <= 1
    /\ (event_source.tag = "Paused" => timers = {})

\* A timer with time left was cancelled by a pause.
C1_Witness ==
    /\ event_source.tag = "Paused"
    /\ event_source.remaining > 0
    /\ timers = {}
    /\ should_pause

\* C2: with the timer armed at t0 for the duration D and the image changed
\* once since, at t with t0 < t < t0 + D, and no pause or configuration change
\* in between, one registration is live and due at t0 + D or, after it fired
\* there, at t + D; the callback fired at t0 + D does not advance the image and
\* reschedules itself for t + D, and it advances the image exactly at t + D.
C2_InScenario == IsSome(rot.t)
C2_T0 == Unwrap(rot.t0)
C2_T == Unwrap(rot.t)
C2_D == Unwrap(wallpaper_info.duration)
C2_RotationFollowsManualChange ==
    /\ [](C2_InScenario =>
            \E r \in timers :
                /\ timers = {r}
                /\ now <= r.deadline
                /\ r.deadline = IF rot.last = "rescheduled" THEN C2_T + C2_D
                                ELSE C2_T0 + C2_D)
    /\ [][(C2_InScenario /\ fx'.op = "timer_callback") =>
             /\ (now = C2_T0 + C2_D =>
                    /\ ~fx'.advanced
                    /\ \E r \in timers' : timers' = {r} /\ r.deadline = C2_T + C2_D)
             /\ (fx'.advanced <=> now = C2_T + C2_D)]_vars

\* The callback deferred at t0 + D and then advanced the image at t + D.
C2_Witness ==
    /\ rot.last = "advanced"
    /\ fx.op = "timer_callback"
    /\ fx.advanced

\* C3: loading_image_tries never exceeds 5.
C3_TriesAtMostFive == loading_image_tries <= GiveUpTries

\* C4: a call of load_wallpaper that starts with loading_image_tries = 0 and
\* gets Error five times in a row returns true, leaves the renderer's image
\* and the picker's current image alone, and leaves loading_image None and
\* loading_image_tries 0.
C4_FiveErrorsGiveUpAndReset ==
    [][(loading_image_tries = 0 /\ fx'.errors = GiveUpTries) =>
          /\ fx'.ret = "true"
          /\ renderer'.image = renderer.image
          /\ image_picker'.current_img = image_picker.current_img
          /\ loading_image' = None
          /\ loading_image_tries' = 0]_vars

\* C5: handle_pause_state called twice leaves the event_source and the
\* registrations that calling it once leaves.
C5_HandlePauseStateIdempotent ==
    LET once == handle_pause_state(Cur)
        twice == handle_pause_state(once)
    IN  /\ twice.event_source = once.event_source
        /\ twice.timers = once.timers

\* A state in which the first call re-arms the timer.
C5_Witness ==
    /\ ~should_pause
    /\ event_source.tag = "Paused"
    /\ handle_pause_state(Cur).timers # timers

\* The time left of the configured duration since the image changed.
C6_Remaining ==
    IF wallpaper_info.duration = None THEN 0
    ELSE IF Unwrap(wallpaper_info.duration) > Elapsed
    THEN Unwrap(wallpaper_info.duration) - Elapsed
    ELSE 0

C6_Pauses ==
    (should_pause /\ event_source.tag = "Running") =>
        /\ event_source.token \notin {r.token : r \in timers'}
        /\ timers' = {r \in timers : r.token # event_source.token}
        /\ event_source' = Paused(C6_Remaining)

C6_Rearms ==
    \E r \in timers' :
        /\ r \notin timers
        /\ timers' = timers \cup {r}
        /\ r.deadline = now + event_source.remaining
        /\ event_source' = Running(r.token)

\* C6 as stated: handle_pause_state pauses a Running timer into
\* Paused(remaining), and re-arms a Paused(remaining) one for exactly
\* remaining whenever should_pause is false.
C6_ReconcilesAsStated ==
    [][fx'.op = "handle_pause_state" =>
          /\ C6_Pauses
          /\ ((~should_pause /\ event_source.tag = "Paused") => C6_Rearms)]_vars

\* C6 as amended: the re-arming happens when a rotation duration is
\* configured; without one nothing is registered and event_source stays
\* Paused.  The remaining time of a pause without a duration is zero.
C6_ReconcilesWithDuration ==
    [][fx'.op = "handle_pause_state" =>
          /\ C6_Pauses
          /\ ((~should_pause /\ event_source.tag = "Paused"
                 /\ IsSome(wallpaper_info.duration)) => C6_Rearms)
          /\ ((~should_pause /\ event_source.tag = "Paused"
                 /\ wallpaper_info.duration = None) =>
                    /\ timers' = timers
                    /\ event_source' = event_source)]_vars

\* handle_pause_state re-armed the timer for the time that was left.
C6_Witness ==
    /\ fx.op = "handle_pause_state"
    /\ event_source.tag = "Running"
    /\ ~should_pause
    /\ \E r \in timers : r.token = event_source.token
                         /\ 0 < r.deadline - now
                         /\ r.deadline < image_picker.image_changed_instant
                                         + Unwrap(wallpaper_info.duration)

\* C7: a reload that removes the duration while event_source is
\* Running(token) cancels the token and leaves event_source NotSet.
C7_DurationRemovedResetsEventSource ==
    [][(/\ fx'.op = "update_wallpaper_info"
        /\ IsSome(wallpaper_info.duration)
        /\ wallpaper_info'.duration = None
        /\ event_source.tag = "Running") =>
          /\ event_source.token \notin {r.token : r \in timers'}
          /\ event_source' = NotSet]_vars

\* C8: skip_next_transition is never set back to true, is false after every
\* call that got Loaded, and a transition of time 0 starts only in the call
\* that clears it.
C8_SkipIsOneShot ==
    [][/\ (~skip_next_transition => ~skip_next_transition')
       /\ (fx'.loaded => ~skip_next_transition')
       /\ (fx'.started = Some(0) => skip_next_transition /\ ~skip_next_transition')]_vars

\* A draw whose load consumed the flag and started the transition with time 0.
C8_Witness ==
    /\ fx.op = "draw"
    /\ fx.loaded
    /\ fx.started = Some(0)
    /\ ~skip_next_transition

ResizeOps == {"change_size", "change_transform", "change_scale_factor"}

\* C9: when a resize reaches queue_draw, no earlier transition is running: its
\* load_wallpaper is not deferred, and a transition running afterwards is the
\* one that load started.
C9_ResizeEndsTransition ==
    (fx.op \in ResizeOps /\ fx.queued) =>
        /\ ~fx.deferred
        /\ (renderer.transition_running => IsSome(fx.started))

\* A resize ended a running transition and its queue_draw loaded an image.
C9_Witness ==
    /\ fx.op \in ResizeOps
    /\ fx.forced
    /\ fx.queued
    /\ fx.loaded

\* C10: a reload that changes mode or offset applies both to the renderer;
\* it calls draw in the same call when the path is unchanged, and does not
\* when the path changed too.
C10_ModeChangeDrawsNow ==
    [][(/\ fx'.op = "update_wallpaper_info"
        /\ (wallpaper_info'.mode # wallpaper_info.mode
              \/ wallpaper_info'.offset # wallpaper_info.offset)) =>
          /\ renderer'.mode = Some(wallpaper_info'.mode)
          /\ renderer'.offset = Some(wallpaper_info'.offset)
          /\ (fx'.draw_called <=> wallpaper_info'.path = wallpaper_info.path)]_vars

\* A reload of the mode alone drew at once with the new mode.
C10_Witness ==
    /\ fx.op = "update_wallpaper_info"
    /\ fx.draw_called
    /\ fx.drew
    /\ renderer.mode = Some(wallpaper_info.mode)

\* C11: pause, resume and toggle_pause change should_pause and nothing else
\* of the surface or the registry, in every state; toggle_pause twice gives
\* back the should_pause it started from.
PauseOps == {"pause", "resume", "toggle_pause"}
C11_PauseOnlySetsIntent ==
    /\ [](toggle_pause(toggle_pause(Cur)).should_pause = should_pause)
    /\ [][fx'.op \in PauseOps =>
            /\ event_source' = event_source
            /\ timers' = timers
            /\ should_pause' = CASE fx'.op = "pause" -> TRUE
                                 [] fx'.op = "resume" -> FALSE
                                 [] OTHER -> ~should_pause
            /\ UNCHANGED <<wallpaper_info, image_picker, renderer, window_drawn,
                           loading_image, loading_image_tries, skip_next_transition,
                           context_current, frame_requested, registry_ok,
                           surface_present, panicked, now>>]_vars

\* toggle_pause asked for a pause while the timer is still registered.
C11_Witness ==
    /\ fx.op = "toggle_pause"
    /\ should_pause
    /\ event_source.tag = "Running"
    /\ \E r \in timers : r.token = event_source.token

\* C12: a registration that fails in add_timer does not end the daemon; the
\* surface goes on with event_source not Running.
C12_RegistrationFailureIsScoped ==
    [][fx'.insert_failed => (~panicked' /\ event_source'.tag # "Running")]_vars

\* C20: a callback that fires for a surface that is gone, or for one without
\* a rotation duration, drops its own registration and nothing else happens:
\* no image is advanced, no draw is queued, no panic, no field changes.
C20_CallbackCancelsItself ==
    [][(fx'.op = "timer_callback" /\ (~surface_present \/ wallpaper_info.duration = None)) =>
          /\ \E r \in timers : r.deadline <= now /\ timers' = timers \ {r}
          /\ ~fx'.advanced
          /\ ~fx'.queued
          /\ ~panicked'
          /\ UNCHANGED <<event_source, wallpaper_info, image_picker, renderer,
                         window_drawn, loading_image, loading_image_tries,
                         skip_next_transition, should_pause, context_current,
                         frame_requested, surface_present>>]_vars

\* The callback fired for a surface that is gone and dropped itself.
C20_Witness ==
    /\ fx.op = "timer_callback"
    /\ fx.lookup_failed
    /\ ~surface_present
    /\ timers = {}

\* The callback fired for a surface without a duration and dropped itself.
C20_WitnessNoDuration ==
    /\ fx.op = "timer_callback"
    /\ surface_present
    /\ wallpaper_info.duration = None
    /\ ~fx.lookup_failed

\* C13: a fired callback advances the image exactly when the configured
\* duration has elapsed since image_changed_instant, and then puts itself off
\* for the whole duration; with time left it puts itself off for exactly the
\* time left, advances nothing and queues no draw.
C13_NoEarlyAdvance ==
    [][(fx'.op = "timer_callback" /\ surface_present /\ IsSome(wallpaper_info.duration)) =>
          LET D == Unwrap(wallpaper_info.duration)
              delay == IF Elapsed >= D THEN D ELSE D - Elapsed
          IN  /\ fx'.advanced <=> Elapsed >= D
              /\ \E r \in timers :
                     /\ r.deadline <= now
                     /\ timers' = (timers \ {r})
                                     \cup {[token |-> r.token, deadline |-> now + delay]}
              /\ Elapsed < D =>
                     /\ ~fx'.queued
                     /\ UNCHANGED <<image_picker, renderer, loading_image,
                                    frame_requested, event_source>>]_vars

\* A callback fired with time left and put itself off to the end of the
\* image's duration.
C13_Witness ==
    /\ fx.op = "timer_callback"
    /\ ~fx.advanced
    /\ IsSome(wallpaper_info.duration)
    /\ \E r \in timers :
           /\ r.deadline > now
           /\ r.deadline = image_picker.image_changed_instant
                              + Unwrap(wallpaper_info.duration)

\* A reload that changes the duration to a new Some value.
C14_DurationChanged ==
    /\ fx'.op = "update_wallpaper_info"
    /\ IsSome(wallpaper_info'.duration)
    /\ wallpaper_info'.duration # wallpaper_info.duration

\* After it one timer is registered, the one event_source names, due in `delay`.
C14_Rearmed(delay) ==
    /\ fx'.armed = Some(delay)
    /\ \E r \in timers' : /\ timers' = {r}
                          /\ r.deadline = now + delay
                          /\ event_source' = Running(r.token)

\* C14 as stated: the new timer is due after the time that remains on the old
\* duration when the path did not change and such time remains, and at once
\* otherwise.
C14_RearmsOnOldDuration ==
    [][C14_DurationChanged =>
          LET old == wallpaper_info.duration
              reuse == /\ wallpaper_info'.path = wallpaper_info.path
                       /\ IsSome(old)
                       /\ Unwrap(old) > Elapsed
          IN  C14_Rearmed(IF reuse THEN Unwrap(old) - Elapsed ELSE 0)]_vars

\* C14 as amended: the time that counts is the time that remains on the new
\* duration since image_changed_instant.
C14_RearmsOnNewDuration ==
    [][C14_DurationChanged =>
          LET new == Unwrap(wallpaper_info'.duration)
              reuse == /\ wallpaper_info'.path = wallpaper_info.path
                       /\ new > Elapsed
          IN  C14_Rearmed(IF reuse THEN new - Elapsed ELSE 0)]_vars

\* A reload of the duration alone re-armed the timer for the time left.
C14_Witness ==
    /\ fx.op = "update_wallpaper_info"
    /\ ~fx.queued
    /\ IsSome(fx.armed)
    /\ Unwrap(fx.armed) > 0
    /\ Unwrap(fx.armed) < Unwrap(wallpaper_info.duration)

\* draw found no transition running and load_wallpaper answered false.
C15_NothingReady ==
    /\ fx'.draw_called
    /\ fx'.ret = "false"
    /\ ~renderer'.transition_running

C15_ReturnsEarly ==
    /\ frame_requested'
    /\ fx'.bare_commit
    /\ ~fx'.drew

C15_DrawsAnyway ==
    /\ frame_requested'
    /\ ~fx'.bare_commit
    /\ fx'.drew

\* C15 as stated: with nothing ready and window_drawn false, draw requests a
\* frame, commits and returns without the GPU draw, the swap and the damage.
C15_EarlyReturnBeforeFirstDraw ==
    [][(C15_NothingReady /\ ~window_drawn) => C15_ReturnsEarly]_vars

\* C15 as amended: draw returns early when window_drawn is true; when it is
\* false draw requests the frame and goes on to draw, swap, damage and commit.
C15_EarlyReturnAfterFirstDraw ==
    [][C15_NothingReady =>
          IF window_drawn THEN C15_ReturnsEarly ELSE C15_DrawsAnyway]_vars

\* A frame callback of a drawn window found the decoder still waiting.
C15_Witness ==
    /\ fx.op = "draw"
    /\ fx.ret = "false"
    /\ window_drawn
    /\ fx.bare_commit
    /\ frame_requested

\* C16: when draw has returned, the surface's context is no longer current.
C16_ContextResetAfterDraw == fx.draw_called => ~context_current

\* C17: a load_wallpaper that finds a transition running returns true without
\* an answer of the decoder and without an image for the renderer; an image is
\* bound, and a transition started, only with no transition running.  (A
\* resize ends the transition before its load.)
C17_RunningAtLoad ==
    /\ fx'.ret # "none"
    /\ fx'.op \notin ResizeOps
    /\ renderer.transition_running
C17_NoLoadMidTransition ==
    [][/\ C17_RunningAtLoad =>
            /\ fx'.ret = "true"
            /\ ~fx'.loaded
            /\ fx'.errors = 0
            /\ fx'.started = None
            /\ renderer'.image = renderer.image
            /\ image_picker'.current_img = image_picker.current_img
       /\ (fx'.loaded \/ IsSome(fx'.started) \/ renderer'.image # renderer.image) =>
            ~C17_RunningAtLoad]_vars

\* A load adopted a new target and stopped at the running transition.
C17_Witness ==
    /\ fx.deferred
    /\ fx.ret = "true"
    /\ renderer.transition_running
    /\ IsSome(loading_image)

RECURSIVE GivesUpWithin(_, _)
GivesUpWithin(w, n) ==
    IF n = 0 THEN FALSE
    ELSE LET r == ErrorArm(w)
         IN  r.brk = "true" \/ GivesUpWithin(r.w, n - 1)

\* C19: in every reachable state, a load_wallpaper whose decoder answers
\* Error every time gives up, returning true, within five answers.
C19_GivesUpWithinFiveErrors == GivesUpWithin(Cur, GiveUpTries)

\* C21: whenever event_source is Running(token), token is a live registration
\* of the registry.
C21_RunningTokenIsLive ==
    event_source.tag = "Running" =>
        \E r \in timers : r.token = event_source.token

\* The part of C21 about a configured duration: Running with a duration has a
\* registration pending.
C21_RunningWithDurationIsLive ==
    (surface_present /\ event_source.tag = "Running"
       /\ IsSome(wallpaper_info.duration)) =>
        \E r \in timers : r.token = event_source.token

\* C22: while should_pause is true and event_source is Paused, a configuration
\* reload registers no timer.
C22_ReloadKeepsPausedUnregistered ==
    [][(should_pause /\ event_source.tag = "Paused"
          /\ fx'.op = "update_wallpaper_info") => timers' \subseteq timers]_vars

\* C23: a target adopted while a transition was running, with the transition
\* finished by a frame callback's draw, is in the end the renderer's image,
\* with loading_image None.
C23_DeferredLoadIsDisplayed ==
    \A x \in Images :
        (/\ fx.op = "draw"
         /\ fx.deferred
         /\ ~renderer.transition_running
         /\ loading_image = Some(x))
            ~> (renderer.image = x /\ loading_image = None)

=============================================================================
